---------------------------- MODULE Spec2Model ----------------------------
(***************************************************************************)
(* Model of the paper-similarity checker in src/main.py: the tokenizer     *)
(* (preprocess_text), the cosine similarity of two token-count mappings    *)
(* (calculate_cosine_similarity), their composition (calculate_similarity) *)
(* and the command-line driver (main).                                     *)
(*                                                                         *)
(* Python's float is IEEE-754 binary64.  The three float operations of     *)
(* calculate_cosine_similarity (math.sqrt, *, /) are modelled bit-exactly: *)
(* a float is a record [m, e] of a 53-bit mantissa m (an arbitrary         *)
(* precision natural, kept as a little-endian sequence of limbs) and an    *)
(* exponent e, of value m * 2^e, and each operation rounds its exact       *)
(* result to nearest, ties to even.                                        *)
(***************************************************************************)
EXTENDS Integers, Sequences, FiniteSets, TLC

(***************************************************************************)
(* Arbitrary-precision naturals: little-endian limbs, no high zero limb.   *)
(***************************************************************************)
LimbBits == 15
Base == 2^LimbBits

Limb(x, i) == IF i <= Len(x) THEN x[i] ELSE 0

RECURSIVE BNorm(_)
BNorm(x) ==
  IF x = <<>> THEN <<>>
  ELSE IF x[Len(x)] = 0 THEN BNorm(SubSeq(x, 1, Len(x) - 1))
  ELSE x

RECURSIVE BFromInt(_)
BFromInt(n) == IF n = 0 THEN <<>> ELSE <<n % Base>> \o BFromInt(n \div Base)

RECURSIVE BAddC(_, _, _, _)
BAddC(x, y, i, c) ==
  IF i > Len(x) /\ i > Len(y)
  THEN (IF c = 0 THEN <<>> ELSE <<c>>)
  ELSE LET s == Limb(x, i) + Limb(y, i) + c
       IN  <<s % Base>> \o BAddC(x, y, i + 1, s \div Base)

BAdd(x, y) == BAddC(x, y, 1, 0)

RECURSIVE BSubC(_, _, _, _)
BSubC(x, y, i, b) ==
  IF i > Len(x) THEN <<>>
  ELSE LET d == x[i] - Limb(y, i) - b
       IN  IF d < 0 THEN <<d + Base>> \o BSubC(x, y, i + 1, 1)
                    ELSE <<d>> \o BSubC(x, y, i + 1, 0)

\* x - y, for x >= y
BSub(x, y) == BNorm(BSubC(x, y, 1, 0))

RECURSIVE BCmpAt(_, _, _)
BCmpAt(x, y, i) ==
  IF i = 0 THEN 0
  ELSE IF x[i] > y[i] THEN 1
  ELSE IF x[i] < y[i] THEN -1
  ELSE BCmpAt(x, y, i - 1)

\* -1, 0 or 1 as x < y, x = y or x > y
BCmp(x, y) ==
  IF Len(x) > Len(y) THEN 1
  ELSE IF Len(x) < Len(y) THEN -1
  ELSE BCmpAt(x, y, Len(x))

RECURSIVE BMulSmallC(_, _, _, _)
BMulSmallC(x, k, i, c) ==
  IF i > Len(x)
  THEN (IF c = 0 THEN <<>> ELSE <<c>>)
  ELSE LET p == x[i] * k + c
       IN  <<p % Base>> \o BMulSmallC(x, k, i + 1, p \div Base)

\* x * k, for 0 <= k < Base
BMulSmall(x, k) == IF k = 0 THEN <<>> ELSE BMulSmallC(x, k, 1, 0)

BShlLimbs(x, n) == IF x = <<>> THEN <<>> ELSE [i \in 1..n |-> 0] \o x

RECURSIVE BMulAt(_, _, _)
BMulAt(x, y, j) ==
  IF j > Len(y) THEN <<>>
  ELSE BAdd(BShlLimbs(BMulSmall(x, y[j]), j - 1), BMulAt(x, y, j + 1))

BMul(x, y) == BMulAt(x, y, 1)

\* x * 2^k
BShl(x, k) == BShlLimbs(BMulSmall(x, 2^(k % LimbBits)), k \div LimbBits)

RECURSIVE BDivSmallAt(_, _, _, _)
BDivSmallAt(x, d, i, r) ==
  IF i = 0 THEN <<>>
  ELSE LET cur == r * Base + x[i]
       IN  BDivSmallAt(x, d, i - 1, cur % d) \o <<cur \div d>>

\* floor(x / 2^k)
BShr(x, k) ==
  LET n == k \div LimbBits
      y == IF n >= Len(x) THEN <<>> ELSE SubSeq(x, n + 1, Len(x))
  IN  BNorm(BDivSmallAt(y, 2^(k % LimbBits), Len(y), 0))

RECURSIVE IntBitLen(_)
IntBitLen(n) == IF n = 0 THEN 0 ELSE 1 + IntBitLen(n \div 2)

BBitLen(x) == IF x = <<>> THEN 0 ELSE LimbBits * (Len(x) - 1) + IntBitLen(x[Len(x)])

BIsOdd(x) == x # <<>> /\ x[1] % 2 = 1

BOne == <<1>>

(***************************************************************************)
(* binary64 values >= 0.  FZero is 0.0; any other float has a mantissa of  *)
(* exactly MantBits bits.  FRound(n, e) is the float nearest to n * 2^e    *)
(* (ties to even), the rounding every IEEE-754 operation applies to its    *)
(* exact result.                                                           *)
(***************************************************************************)
MantBits == 53

FZero == [m |-> <<>>, e |-> 0]

FRound(n, e) ==
  LET len == BBitLen(n) IN
  IF n = <<>> THEN FZero
  ELSE IF len <= MantBits
  THEN [m |-> BShl(n, MantBits - len), e |-> e - (MantBits - len)]
  ELSE LET s    == len - MantBits
           q    == BShr(n, s)
           r    == BSub(n, BShl(q, s))
           c    == BCmp(r, BShl(BOne, s - 1))
           up   == c > 0 \/ (c = 0 /\ BIsOdd(q))
           q1   == IF up THEN BAdd(q, BOne) ELSE q
       IN  IF BBitLen(q1) > MantBits
           THEN [m |-> BShr(q1, 1), e |-> e + s + 1]
           ELSE [m |-> q1, e |-> e + s]

\* int -> float, exact for the integers below 2^53
FFromInt(n) == FRound(BFromInt(n), 0)

FOne == FFromInt(1)

\* x * y
FMul(x, y) == FRound(BMul(x.m, y.m), x.e + y.e)

(***************************************************************************)
(* The digit loops of sqrt and / work on naturals below 2^60 kept as two   *)
(* limbs <<lo, hi>> of WideBits bits: doubling, comparing and subtracting  *)
(* are all they need.                                                      *)
(***************************************************************************)
WideBits == 30
Wide == 2^WideBits

WZero == <<0, 0>>

WDbl(x) == LET l == 2 * x[1] IN <<l % Wide, 2 * x[2] + l \div Wide>>

\* 2 * x + 1
WDblInc(x) == LET d == WDbl(x) IN <<d[1] + 1, d[2]>>

WGe(x, y) == x[2] > y[2] \/ (x[2] = y[2] /\ x[1] >= y[1])

\* x - y, for x >= y
WSub(x, y) ==
  IF x[1] >= y[1] THEN <<x[1] - y[1], x[2] - y[2]>>
                  ELSE <<x[1] + Wide - y[1], x[2] - y[2] - 1>>

\* n * 2^k for an int n, the product below 2^60
WShlInt(n, k) ==
  IF k >= WideBits THEN <<0, n * 2^(k - WideBits)>>
  ELSE <<(n % 2^(WideBits - k)) * 2^k, n \div 2^(WideBits - k)>>

WToB(x) ==
  BNorm(<<x[1] % Base, x[1] \div Base,
          x[2] % Base, (x[2] \div Base) % Base, x[2] \div (Base * Base)>>)

\* of a natural below 2^60 (four limbs of LimbBits bits)
BToW(x) == <<Limb(x, 1) + Limb(x, 2) * Base, Limb(x, 3) + Limb(x, 4) * Base>>

RECURSIVE ISqrtFrom(_, _)
ISqrtFrom(n, r) == IF (r + 1) * (r + 1) > n THEN r ELSE ISqrtFrom(n, r + 1)

\* The binary digit-by-digit square root: k more bits of the root of
\* (st.root^2 + st.rem) * 4^k.
RECURSIVE SqrtLoop(_, _)
SqrtLoop(st, k) ==
  IF k = 0 THEN st
  ELSE LET r4   == WDbl(WDbl(st.rem))
           cand == WDblInc(WDbl(st.root))
       IN  IF WGe(r4, cand)
           THEN SqrtLoop([root |-> WDblInc(st.root), rem |-> WSub(r4, cand)], k - 1)
           ELSE SqrtLoop([root |-> WDbl(st.root), rem |-> r4], k - 1)

\* Extra result bits computed before rounding: with a sticky bit below them
\* they decide round-to-nearest-even exactly.
GuardBits == 3

\* math.sqrt(n) for an int n >= 0: the correctly rounded square root
FSqrt(n) ==
  IF n = 0 THEN FZero
  ELSE LET r0 == ISqrtFrom(n, 0)
           k  == MantBits + GuardBits - IntBitLen(r0)
           s  == SqrtLoop([root |-> <<r0, 0>>, rem |-> <<n - r0 * r0, 0>>], k)
           st == IF s.rem = WZero THEN <<>> ELSE BOne
       IN  FRound(BAdd(BMulSmall(WToB(s.root), 2), st), -(k + 1))

\* Binary long division: k more bits of the quotient st.q, for st.rem < d.
RECURSIVE DivLoop(_, _, _)
DivLoop(st, d, k) ==
  IF k = 0 THEN st
  ELSE LET r2 == WDbl(st.rem)
       IN  IF WGe(r2, d)
           THEN DivLoop([q |-> WDblInc(st.q), rem |-> WSub(r2, d)], d, k - 1)
           ELSE DivLoop([q |-> WDbl(st.q), rem |-> r2], d, k - 1)

\* n / y for an int n >= 0 and a float y > 0 (int / float: the int is
\* converted, exactly, and the quotient is correctly rounded)
FDivInt(n, y) ==
  IF n = 0 THEN FZero
  ELSE LET sh == (MantBits - 1) - IntBitLen(n)
           k  == MantBits + GuardBits + 1
           s  == DivLoop([q |-> WZero, rem |-> WShlInt(n, sh)], BToW(y.m), k)
           st == IF s.rem = WZero THEN <<>> ELSE BOne
       IN  FRound(BAdd(BMulSmall(WToB(s.q), 2), st), -(sh + k + 1) - y.e)

\* x <= y on floats >= 0 in canonical form
FLe(x, y) ==
  IF x.m = <<>> THEN TRUE
  ELSE IF y.m = <<>> THEN FALSE
  ELSE x.e < y.e \/ (x.e = y.e /\ BCmp(x.m, y.m) <= 0)

(***************************************************************************)
(* Token-count mappings (dict / Counter): functions from a finite set of   *)
(* tokens to counts.                                                       *)
(***************************************************************************)
Tokens == {"a", "b", "c"}

\* Largest count of a token in an input mapping
MaxCount == 2

Mappings == UNION {[D -> 0..MaxCount] : D \in SUBSET Tokens}

\* The mappings of test_calculate_cosine_similarity_partial
PartialVec1 == [w \in {"xiqu", "gongxiang", "shitang"} |-> 1]
PartialVec2 == [w \in {"xiqu", "gongxiang", "chifan"} |-> 1]

RECURSIVE SumOver(_, _)
SumOver(f, S) ==
  IF S = {} THEN 0
  ELSE LET w == CHOOSE x \in S : TRUE IN f[w] + SumOver(f, S \ {w})

\* all_words = set(vec1.keys()).union(set(vec2.keys()))
AllWords(v1, v2) == (DOMAIN v1) \cup (DOMAIN v2)

\* Mutant of Get: a missing word counts 1
GetDefaultOne(vec, word) == IF word \in DOMAIN vec THEN vec[word] ELSE 1

\* vec.get(word, 0)
Get(vec, word) == IF word \in DOMAIN vec THEN vec[word] ELSE 0

\* [vec.get(word, 0) for word in all_words].  vector1 and vector2 are built
\* by iterating the same set, so position i of both belongs to the same
\* word: the lists are kept as functions of the word.
Vector(vec, words) == [w \in words |-> Get(vec, w)]

\* Mutant of AfterLookups: a lookup inserts the missing word with count 0
\* (vec.setdefault(word, 0))
AfterLookupsInsert(vec, words) == [w \in words |-> Get(vec, w)]

\* The mapping after the lookups vec.get(word, 0) for every word of
\* all_words: dict.get inserts nothing.
AfterLookups(vec, words) == vec

\* Mutant of DotProduct: the products of the first vector with itself
DotProductOfFirst(x1, x2) == SumOver([w \in DOMAIN x1 |-> x1[w] * x1[w]], DOMAIN x1)

\* sum(v1 * v2 for v1, v2 in zip(vector1, vector2)): a sum of Python ints,
\* exact whatever the order
DotProduct(x1, x2) == SumOver([w \in DOMAIN x1 |-> x1[w] * x2[w]], DOMAIN x1)

\* sum(v * v for v in vector)
SumSquares(x) == SumOver([w \in DOMAIN x |-> x[w] * x[w]], DOMAIN x)

\* FSqrt tabulated once for the sums of squares the bounded inputs reach
\* (the same values; other arguments are computed on demand)
SqrtTable == [n \in 0..(Cardinality(Tokens) * MaxCount * MaxCount) |-> FSqrt(n)]

Sqrt(n) == IF n \in DOMAIN SqrtTable THEN SqrtTable[n] ELSE FSqrt(n)

\* Mutant of Magnitude: the square root left out
MagnitudeNoSqrt(x) == FFromInt(SumSquares(x))

\* math.sqrt(sum(v * v for v in vector))
Magnitude(x) == Sqrt(SumSquares(x))

\* Mutant of ZeroMagnitude: only the first magnitude is tested
ZeroMagnitudeFirstOnly(m1, m2) == m1 = FZero

\* Mutant of ZeroMagnitude: "and" for "or"
ZeroMagnitudeBoth(m1, m2) == m1 = FZero /\ m2 = FZero

\* magnitude1 == 0 or magnitude2 == 0
ZeroMagnitude(m1, m2) == m1 = FZero \/ m2 = FZero

\* magnitude1 * magnitude2
Denominator(m1, m2) == FMul(m1, m2)

\* calculate_cosine_similarity as a function of its arguments: <<r>> for a
\* returned float r, <<>> when the division raises ZeroDivisionError
CosineSimilarity(v1, v2) ==
  LET words == AllWords(v1, v2)
      x1    == Vector(v1, words)
      x2    == Vector(v2, words)
      m1    == Magnitude(x1)
      m2    == Magnitude(x2)
      den   == Denominator(m1, m2)
  IN  IF ZeroMagnitude(m1, m2) THEN <<FZero>>
      ELSE IF den = FZero THEN <<>>
      ELSE <<FDivInt(DotProduct(x1, x2), den)>>

(***************************************************************************)
(* Texts: sequences of characters, one character of each class the code    *)
(* tells apart.  "x" stands for the characters of \w that jieba cuts into  *)
(* words (ideographs, letters, digits), "," for a character that is        *)
(* neither \w nor \s, " " for a character of \s.                           *)
(***************************************************************************)
WordChars == {"x"}
Punct == {","}
Space == {" "}
Alphabet == WordChars \cup Punct \cup Space

\* Longest input text
MaxLen == 2

Texts == UNION {[1..n -> Alphabet] : n \in 0..MaxLen}

\* Mutant of StripPunctuation: nothing is removed
StripNothing(text) == text

\* re.sub(r'[^\w\s]', '', text)
StripPunctuation(text) ==
  LET Keep(c) == c \in WordChars \cup Space IN SelectSeq(text, Keep)

\* Length of the run of word characters text starts with
RECURSIVE WordRun(_)
WordRun(text) ==
  IF text = <<>> \/ Head(text) \notin WordChars THEN 0
  ELSE 1 + WordRun(Tail(text))

\* jieba.cut is a library outside this repository.  What its code fixes:
\* the tokens are non-empty pieces of the text, in order, and joined they
\* give the text back; every character outside its word class (whitespace
\* included) is a token of its own; a run of word characters is cut into
\* words by its dictionary.  Cuts(text) is every token list that allows.
RECURSIVE Cuts(_)
Cuts(text) ==
  IF text = <<>> THEN {<<>>}
  ELSE IF Head(text) \notin WordChars
  THEN {<<<<Head(text)>>>> \o c : c \in Cuts(Tail(text))}
  ELSE UNION {{<<SubSeq(text, 1, k)>> \o c : c \in Cuts(SubSeq(text, k + 1, Len(text)))}
              : k \in 1..WordRun(text)}

\* The segmentations jieba may give the texts of S: one token list for each
Segmenters(S) ==
  {f \in [S -> UNION {Cuts(t) : t \in S}] : \A t \in S : f[t] \in Cuts(t)}

\* Collapse of file.read().strip(): leading and trailing whitespace removed
RECURSIVE StripLeft(_)
StripLeft(text) ==
  IF text # <<>> /\ Head(text) \in Space THEN StripLeft(Tail(text)) ELSE text

RECURSIVE StripRight(_)
StripRight(text) ==
  IF text # <<>> /\ text[Len(text)] \in Space
  THEN StripRight(SubSeq(text, 1, Len(text) - 1)) ELSE text

\* content.strip()
Strip(text) == StripRight(StripLeft(text))

\* Counter(words)
Counter(words) ==
  [w \in {words[i] : i \in DOMAIN words} |->
     Cardinality({i \in DOMAIN words : words[i] = w})]

\* "{:.2f}".format(x): the decimal nearest to the exact value of x with two
\* digits after the point (ties to even), as a number of hundredths
FormatHundredths(x) ==
  IF x.m = <<>> THEN 0
  ELSE LET n  == BMulSmall(x.m, 100)
           s  == -x.e
           q  == BShr(n, s)
           r  == BSub(n, BShl(q, s))
           c  == BCmp(r, BShl(BOne, s - 1))
           qi == Limb(q, 1)
       IN  IF c > 0 \/ (c = 0 /\ qi % 2 = 1) THEN qi + 1 ELSE qi

VARIABLES
  pc,           \* the statement about to run
  stack,        \* return addresses of the calls in progress
  vec1, vec2,   \* calculate_cosine_similarity: its arguments
  all_words, vector1, vector2, dot_product, magnitude1, magnitude2,
  cos_ret,      \* <<r>> once calculate_cosine_similarity returned r
  divided,      \* the division of line 76 was evaluated
  error,        \* the exception raised, "none" if none
  segmenter,    \* jieba's segmentation of the texts it is given
  original_text, copied_text,     \* calculate_similarity: its arguments
  original_words, copied_words, original_freq, copied_freq,
  similarity,   \* <<r>> once calculate_similarity returned r
  calls,        \* calls of calculate_similarity so far
  scores,       \* the scores the caller got, one per call
  argc,         \* number of positional arguments (len(sys.argv) - 1)
  readable,     \* for each input file, whether open() succeeds
  content,      \* for each input file, its text
  writable,     \* whether the output file can be opened for writing
  reads,        \* the input files opened so far, in order
  stdout,       \* the messages printed so far
  output,       \* <<h>> once the output file holds h hundredths
  exit_code     \* the exit status, -1 while the process runs

cosVars == <<vec1, vec2, all_words, vector1, vector2, dot_product,
             magnitude1, magnitude2, cos_ret, divided, error>>

simVars == <<segmenter, original_text, copied_text, original_words,
             copied_words, original_freq, copied_freq, similarity, calls, scores>>

envVars == <<argc, readable, content, writable>>

mainVars == <<envVars, reads, stdout, output, exit_code>>

vars == <<pc, stack, cosVars, simVars, mainVars>>

CosLocalsInit ==
  /\ all_words = {}
  /\ vector1 = <<>>
  /\ vector2 = <<>>
  /\ dot_product = 0
  /\ magnitude1 = FZero
  /\ magnitude2 = FZero
  /\ cos_ret = <<>>
  /\ divided = FALSE
  /\ error = "none"

(***************************************************************************)
(* calculate_cosine_similarity, statement by statement                     *)
(***************************************************************************)
\* line 58
CosVocabulary ==
  /\ UNCHANGED <<simVars, mainVars>>
  /\ pc = "cos_vocabulary"
  /\ all_words' = AllWords(vec1, vec2)
  /\ pc' = "cos_vectors"
  /\ UNCHANGED <<stack, vec1, vec2, vector1, vector2, dot_product,
                 magnitude1, magnitude2, cos_ret, divided, error>>

\* lines 61-62
CosVectors ==
  /\ UNCHANGED <<simVars, mainVars>>
  /\ pc = "cos_vectors"
  /\ vector1' = Vector(vec1, all_words)
  /\ vector2' = Vector(vec2, all_words)
  /\ vec1' = AfterLookups(vec1, all_words)
  /\ vec2' = AfterLookups(vec2, all_words)
  /\ pc' = "cos_dot"
  /\ UNCHANGED <<stack, all_words, dot_product, magnitude1, magnitude2,
                 cos_ret, divided, error>>

\* line 65
CosDotProduct ==
  /\ UNCHANGED <<simVars, mainVars>>
  /\ pc = "cos_dot"
  /\ dot_product' = DotProduct(vector1, vector2)
  /\ pc' = "cos_magnitudes"
  /\ UNCHANGED <<stack, vec1, vec2, all_words, vector1, vector2,
                 magnitude1, magnitude2, cos_ret, divided, error>>

\* lines 68-69
CosMagnitudes ==
  /\ UNCHANGED <<simVars, mainVars>>
  /\ pc = "cos_magnitudes"
  /\ magnitude1' = Magnitude(vector1)
  /\ magnitude2' = Magnitude(vector2)
  /\ pc' = "cos_guard"
  /\ UNCHANGED <<stack, vec1, vec2, all_words, vector1, vector2,
                 dot_product, cos_ret, divided, error>>

\* The return of a call: back to the caller, or the end of the run
Return == IF stack = <<>> THEN pc' = "done" /\ stack' = stack
          ELSE pc' = Head(stack) /\ stack' = Tail(stack)

\* lines 72-73: return 0.0
CosGuardZero ==
  /\ UNCHANGED <<simVars, mainVars>>
  /\ pc = "cos_guard"
  /\ ZeroMagnitude(magnitude1, magnitude2)
  /\ cos_ret' = <<FZero>>
  /\ Return
  /\ UNCHANGED <<vec1, vec2, all_words, vector1, vector2, dot_product,
                 magnitude1, magnitude2, divided, error>>

\* line 72, neither magnitude zero
CosGuardPass ==
  /\ UNCHANGED <<simVars, mainVars>>
  /\ pc = "cos_guard"
  /\ ~ZeroMagnitude(magnitude1, magnitude2)
  /\ pc' = "cos_divide"
  /\ UNCHANGED <<stack, cosVars>>

\* line 76: return dot_product / (magnitude1 * magnitude2); a zero divisor
\* raises ZeroDivisionError, which nothing catches
CosDivide ==
  /\ UNCHANGED <<simVars, mainVars>>
  /\ pc = "cos_divide"
  /\ divided' = TRUE
  /\ LET den == Denominator(magnitude1, magnitude2) IN
       IF den = FZero
       THEN /\ error' = "ZeroDivisionError"
            /\ pc' = "raised"
            /\ UNCHANGED <<stack, cos_ret>>
       ELSE /\ cos_ret' = <<FDivInt(dot_product, den)>>
            /\ Return
            /\ error' = error
  /\ UNCHANGED <<vec1, vec2, all_words, vector1, vector2, dot_product,
                 magnitude1, magnitude2>>

CosStep ==
  \/ CosVocabulary
  \/ CosVectors
  \/ CosDotProduct
  \/ CosMagnitudes
  \/ CosGuardZero
  \/ CosGuardPass
  \/ CosDivide

(***************************************************************************)
(* preprocess_text and calculate_similarity                                *)
(***************************************************************************)
\* jieba.cut(text); a text outside the oracle is cut character by character
JiebaCut(text) ==
  IF text \in DOMAIN segmenter THEN segmenter[text]
  ELSE [i \in 1..Len(text) |-> <<text[i]>>]

\* preprocess_text(text), lines 40-44
PreprocessText(text) == JiebaCut(StripPunctuation(text))

SimLocalsInit ==
  /\ original_words = <<>>
  /\ copied_words = <<>>
  /\ original_freq = <<>>
  /\ copied_freq = <<>>
  /\ similarity = <<>>

\* line 109
SimPreprocessOriginal ==
  /\ pc = "sim_preprocess1"
  /\ original_words' = PreprocessText(original_text)
  /\ pc' = "sim_preprocess2"
  /\ UNCHANGED <<stack, cosVars, segmenter, original_text, copied_text,
                 copied_words, original_freq, copied_freq, similarity,
                 calls, scores, mainVars>>

\* line 110
SimPreprocessCopied ==
  /\ pc = "sim_preprocess2"
  /\ copied_words' = PreprocessText(copied_text)
  /\ pc' = "sim_count"
  /\ UNCHANGED <<stack, cosVars, segmenter, original_text, copied_text,
                 original_words, original_freq, copied_freq, similarity,
                 calls, scores, mainVars>>

\* lines 113-114
SimCount ==
  /\ pc = "sim_count"
  /\ original_freq' = Counter(original_words)
  /\ copied_freq' = Counter(copied_words)
  /\ pc' = "sim_call"
  /\ UNCHANGED <<stack, cosVars, segmenter, original_text, copied_text,
                 original_words, copied_words, similarity, calls, scores,
                 mainVars>>

\* line 117, the call: a new frame of calculate_cosine_similarity
SimCall ==
  /\ pc = "sim_call"
  /\ vec1' = original_freq
  /\ vec2' = copied_freq
  /\ all_words' = {}
  /\ vector1' = <<>>
  /\ vector2' = <<>>
  /\ dot_product' = 0
  /\ magnitude1' = FZero
  /\ magnitude2' = FZero
  /\ cos_ret' = <<>>
  /\ stack' = <<"sim_return">> \o stack
  /\ pc' = "cos_vocabulary"
  /\ UNCHANGED <<divided, error, simVars, mainVars>>

\* lines 117-118: similarity = the value returned; return similarity
SimReturn ==
  /\ pc = "sim_return"
  /\ similarity' = cos_ret
  /\ scores' = Append(scores, cos_ret[1])
  /\ Return
  /\ UNCHANGED <<cosVars, segmenter, original_text, copied_text,
                 original_words, copied_words, original_freq, copied_freq,
                 calls, mainVars>>

SimStep ==
  \/ SimPreprocessOriginal
  \/ SimPreprocessCopied
  \/ SimCount
  \/ SimCall
  \/ SimReturn

\* Calls of calculate_similarity on the same two documents
MaxCalls == 2

\* The caller calls calculate_similarity again with the same arguments
CallAgain ==
  /\ pc = "done"
  /\ calls < MaxCalls
  /\ calls' = calls + 1
  /\ original_words' = <<>>
  /\ copied_words' = <<>>
  /\ original_freq' = <<>>
  /\ copied_freq' = <<>>
  /\ similarity' = <<>>
  /\ pc' = "sim_preprocess1"
  /\ UNCHANGED <<stack, cosVars, segmenter, original_text, copied_text,
                 scores, mainVars>>

(***************************************************************************)
(* main and read_file                                                      *)
(***************************************************************************)
\* Largest number of positional arguments on the command line
MaxArgs == 4

\* The exit status of sys.exit(1)
ExitFailure == 1

\* Mutant of MainCheckArgs: "len(sys.argv) < 4" for "len(sys.argv) != 4"
MainCheckArgsTooFewOnly ==
  /\ pc = "main_args"
  /\ IF argc < 3
     THEN /\ stdout' = Append(stdout, "Usage")
          /\ exit_code' = ExitFailure
          /\ pc' = "exit"
     ELSE /\ pc' = "main_read1"
          /\ UNCHANGED <<stdout, exit_code>>
  /\ UNCHANGED <<stack, cosVars, simVars, envVars, reads, output>>

\* lines 127-129
MainCheckArgs ==
  /\ pc = "main_args"
  /\ IF argc # 3
     THEN /\ stdout' = Append(stdout, "Usage")
          /\ exit_code' = ExitFailure
          /\ pc' = "exit"
     ELSE /\ pc' = "main_read1"
          /\ UNCHANGED <<stdout, exit_code>>
  /\ UNCHANGED <<stack, cosVars, simVars, envVars, reads, output>>

\* line 136: original_text = read_file(original_file), lines 22-28
MainReadOriginal ==
  /\ pc = "main_read1"
  /\ reads' = Append(reads, "original")
  /\ IF readable["original"]
     THEN /\ original_text' = Strip(content["original"])
          /\ pc' = "main_read2"
          /\ UNCHANGED <<stdout, exit_code>>
     ELSE /\ stdout' = Append(stdout, "Error reading file")
          /\ exit_code' = ExitFailure
          /\ pc' = "exit"
          /\ UNCHANGED original_text
  /\ UNCHANGED <<stack, cosVars, segmenter, copied_text, original_words,
                 copied_words, original_freq, copied_freq, similarity,
                 calls, scores, envVars, output>>

\* line 137: copied_text = read_file(copied_file), lines 22-28
MainReadCopied ==
  /\ pc = "main_read2"
  /\ reads' = Append(reads, "copied")
  /\ IF readable["copied"]
     THEN /\ copied_text' = Strip(content["copied"])
          /\ pc' = "main_similarity"
          /\ UNCHANGED <<stdout, exit_code>>
     ELSE /\ stdout' = Append(stdout, "Error reading file")
          /\ exit_code' = ExitFailure
          /\ pc' = "exit"
          /\ UNCHANGED copied_text
  /\ UNCHANGED <<stack, cosVars, segmenter, original_text, original_words,
                 copied_words, original_freq, copied_freq, similarity,
                 calls, scores, envVars, output>>

\* line 140, the call of calculate_similarity
MainSimilarity ==
  /\ pc = "main_similarity"
  /\ stack' = <<"main_write">> \o stack
  /\ pc' = "sim_preprocess1"
  /\ UNCHANGED <<cosVars, simVars, mainVars>>

\* lines 142-149; falling off the end of main exits with status 0
MainWrite ==
  /\ pc = "main_write"
  /\ IF writable
     THEN /\ output' = <<FormatHundredths(similarity[1])>>
          /\ exit_code' = 0
          /\ UNCHANGED stdout
     ELSE /\ stdout' = Append(stdout, "Error writing to output file")
          /\ exit_code' = ExitFailure
          /\ UNCHANGED output
  /\ pc' = "exit"
  /\ UNCHANGED <<stack, cosVars, simVars, envVars, reads>>

MainStep ==
  \/ MainCheckArgs
  \/ MainReadOriginal
  \/ MainReadCopied
  \/ MainSimilarity
  \/ MainWrite

SimIdle ==
  /\ segmenter = <<>>
  /\ original_text = <<>>
  /\ copied_text = <<>>
  /\ SimLocalsInit
  /\ calls = 0
  /\ scores = <<>>

MainIdle ==
  /\ argc = 0
  /\ readable = <<>>
  /\ content = <<>>
  /\ writable = FALSE
  /\ reads = <<>>
  /\ stdout = <<>>
  /\ output = <<>>
  /\ exit_code = -1

(***************************************************************************)
(* Spec: one call of calculate_cosine_similarity on two mappings           *)
(***************************************************************************)
Init ==
  /\ \/ vec1 \in Mappings /\ vec2 \in Mappings
     \/ vec1 = PartialVec1 /\ vec2 = PartialVec2
  /\ pc = "cos_vocabulary"
  /\ stack = <<>>
  /\ CosLocalsInit
  /\ SimIdle
  /\ MainIdle

Next == CosStep

Spec == Init /\ [][Next]_vars

(***************************************************************************)
(* SpecText: calls of calculate_similarity on two texts                    *)
(***************************************************************************)
InitText ==
  /\ original_text \in Texts
  /\ copied_text \in Texts
  /\ segmenter \in Segmenters({StripPunctuation(original_text),
                               StripPunctuation(copied_text)})
  /\ SimLocalsInit
  /\ calls = 1
  /\ scores = <<>>
  /\ vec1 = <<>>
  /\ vec2 = <<>>
  /\ CosLocalsInit
  /\ pc = "sim_preprocess1"
  /\ stack = <<>>
  /\ MainIdle

NextText == SimStep \/ CosStep \/ CallAgain

SpecText == InitText /\ [][NextText]_vars

(***************************************************************************)
(* SpecMain: one run of main                                               *)
(***************************************************************************)
Files == {"original", "copied"}

\* Longest text of an input file
MaxFileLen == 2

FileTexts == UNION {[1..n -> Alphabet] : n \in 0..MaxFileLen}

InitMain ==
  /\ argc \in 0..MaxArgs
  /\ readable \in [Files -> BOOLEAN]
  /\ content \in [Files -> FileTexts]
  /\ writable \in BOOLEAN
  /\ reads = <<>>
  /\ stdout = <<>>
  /\ output = <<>>
  /\ exit_code = -1
  /\ segmenter \in Segmenters({StripPunctuation(Strip(content[f])) : f \in Files})
  /\ original_text = <<>>
  /\ copied_text = <<>>
  /\ SimLocalsInit
  /\ calls = 1
  /\ scores = <<>>
  /\ vec1 = <<>>
  /\ vec2 = <<>>
  /\ CosLocalsInit
  /\ pc = "main_args"
  /\ stack = <<>>

NextMain == MainStep \/ SimStep \/ CosStep

SpecMain == InitMain /\ [][NextMain]_vars

(***************************************************************************)
(* Claims about calculate_cosine_similarity (checked under Spec)           *)
(***************************************************************************)
Returned == pc = "done" /\ cos_ret # <<>>

\* The counts of v are all zero (v may be empty)
ZeroVec(v) == \A w \in DOMAIN v : v[w] = 0

\* Tolerance of the tests' assertAlmostEqual(places=7), 5e-8: 2^-25 is inside it
TolBits == 25

NearOne(r) ==
  /\ FLe(FRound(BFromInt(2^TolBits - 1), -TolBits), r)
  /\ FLe(r, FRound(BFromInt(2^TolBits + 1), -TolBits))

NearTwoThirds(r) ==
  /\ FLe(FDivInt(2 * 2^TolBits - 3, FFromInt(3 * 2^TolBits)), r)
  /\ FLe(r, FDivInt(2 * 2^TolBits + 3, FFromInt(3 * 2^TolBits)))

\* C1: for mappings with non-negative integer counts the returned score r
\* satisfies 0.0 <= r <= 1.0.
C1_Bounded ==
  Returned => FLe(FZero, cos_ret[1]) /\ FLe(cos_ret[1], FOne)

\* C2: swapping the two arguments never changes the returned score.
C2_Symmetric ==
  pc \in {"done", "raised"} => cos_ret = CosineSimilarity(vec2, vec1)

C2_Witness ==
  /\ Returned
  /\ divided
  /\ DOMAIN vec1 # DOMAIN vec2
  /\ SumSquares(vector1) # SumSquares(vector2)
  /\ cos_ret # <<FZero>>

\* C3 as stated: for any non-empty mapping A the score of A with itself is
\* 1.0 within floating-point tolerance.
C3_SelfSimilarityNonEmpty ==
  pc \in {"done", "raised"} /\ vec1 = vec2 /\ DOMAIN vec1 # {}
    => cos_ret # <<>> /\ NearOne(cos_ret[1])

\* C3 amended: for any mapping A with at least one non-zero count the score
\* of A with itself is 1.0 within floating-point tolerance.
C3_SelfSimilarityNonZero ==
  pc \in {"done", "raised"} /\ vec1 = vec2 /\ ~ZeroVec(vec1)
    => cos_ret # <<>> /\ NearOne(cos_ret[1])

C3_Witness ==
  /\ Returned
  /\ divided
  /\ vec1 = vec2
  /\ Cardinality(DOMAIN vec1) >= 2
  /\ \E w \in DOMAIN vec1 : vec1[w] >= 2
  /\ cos_ret # <<FOne>>

\* C4: when either vector's magnitude is zero (an empty mapping or one whose
\* counts are all 0, on either side or both) the result is 0.0 and the
\* division is never evaluated.
C4_ZeroMagnitudeNoDivision ==
  ZeroVec(vec1) \/ ZeroVec(vec2)
    => /\ ~divided
       /\ pc \notin {"cos_divide", "raised"}
       /\ pc \in {"cos_guard", "done"} => magnitude1 = FZero \/ magnitude2 = FZero
       /\ pc = "done" => cos_ret = <<FZero>>

C4_Witness ==
  /\ Returned
  /\ ~ZeroVec(vec1)
  /\ DOMAIN vec2 # {}
  /\ ZeroVec(vec2)
  /\ cos_ret = <<FZero>>
  /\ ~divided

\* C5: mappings that share no keys score 0.0.
C5_Orthogonal ==
  pc \in {"done", "raised"} /\ (DOMAIN vec1) \cap (DOMAIN vec2) = {}
    => cos_ret = <<FZero>>

C5_Witness ==
  /\ Returned
  /\ (DOMAIN vec1) \cap (DOMAIN vec2) = {}
  /\ divided
  /\ cos_ret = <<FZero>>

\* The sparse reference: only the keys of one mapping are visited
SparseDot(a, b) ==
  SumOver([w \in DOMAIN a |-> IF w \in DOMAIN b THEN a[w] * b[w] ELSE 0], DOMAIN a)

SparseSumSquares(a) == SumOver([w \in DOMAIN a |-> a[w] * a[w]], DOMAIN a)

\* C9: with both magnitudes non-zero the result is dot / (|A| * |B|), and
\* the dense dot product and magnitudes over the union vocabulary equal the
\* sparse ones that visit one mapping's keys; the mappings of the worked
\* example give dot 2, squared magnitudes 3 and 3 and a score of 2/3.
C9_DenseEqualsSparse ==
  pc \in {"done", "raised"} /\ ~ZeroVec(vec1) /\ ~ZeroVec(vec2)
    => /\ dot_product = SparseDot(vec1, vec2)
       /\ dot_product = SparseDot(vec2, vec1)
       /\ magnitude1 = Sqrt(SparseSumSquares(vec1))
       /\ magnitude2 = Sqrt(SparseSumSquares(vec2))
       /\ cos_ret = <<FDivInt(SparseDot(vec1, vec2),
                              FMul(Sqrt(SparseSumSquares(vec1)),
                                   Sqrt(SparseSumSquares(vec2))))>>
       /\ vec1 = PartialVec1 /\ vec2 = PartialVec2
            => /\ dot_product = 2
               /\ SumSquares(vector1) = 3
               /\ SumSquares(vector2) = 3
               /\ NearTwoThirds(cos_ret[1])

C9_Witness ==
  /\ Returned
  /\ vec1 = PartialVec1
  /\ vec2 = PartialVec2
  /\ divided
  /\ dot_product = 2

(***************************************************************************)
(* Claims about preprocess_text and calculate_similarity (SpecText)        *)
(***************************************************************************)
\* The text is empty or holds no word character (only punctuation and
\* whitespace)
NoWordTokens(text) == \A i \in DOMAIN text : text[i] \notin WordChars

\* C6: calculate_similarity raises no error, and returns 0.0 whenever at
\* least one of the two strings is empty or holds no word token (only
\* punctuation and/or whitespace), whatever the other string is.
C6_NoTokensScoreZero ==
  /\ error = "none"
  /\ pc # "raised"
  /\ similarity # <<>> /\ (NoWordTokens(original_text) \/ NoWordTokens(copied_text))
       => similarity = <<FZero>>

\* The statements of calculate_cosine_similarity and what follows the call
InOrAfterCosine ==
  pc \in {"cos_vocabulary", "cos_vectors", "cos_dot", "cos_magnitudes",
          "cos_guard", "cos_divide", "sim_return", "done", "raised"}

TokensClean(words) ==
  \A i \in DOMAIN words :
     \A j \in DOMAIN words[i] : words[i][j] \in WordChars \cup Space

\* C10: preprocess_text returns a sequence of tokens none of which holds a
\* character that is neither a word character nor whitespace, and the empty
\* string gives the empty sequence.
C10_TokensHoldNoPunctuation ==
  /\ TokensClean(original_words)
  /\ TokensClean(copied_words)
  /\ pc # "sim_preprocess1" /\ original_text = <<>> => original_words = <<>>
  /\ pc \notin {"sim_preprocess1", "sim_preprocess2"} /\ copied_text = <<>>
       => copied_words = <<>>

C10_Witness ==
  /\ pc = "sim_count"
  /\ \E i \in DOMAIN original_text : original_text[i] \in Punct
  /\ \E i \in DOMAIN original_text : original_text[i] \in WordChars
  /\ original_words # <<>>
  /\ copied_text = <<>>
  /\ copied_words = <<>>

(***************************************************************************)
(* Claim about main (SpecMain)                                             *)
(***************************************************************************)
InSimilarity ==
  pc \in {"sim_preprocess1", "sim_preprocess2", "sim_count", "sim_call",
          "sim_return", "cos_vocabulary", "cos_vectors", "cos_dot",
          "cos_magnitudes", "cos_guard", "cos_divide", "main_write"}

\* C7: the output file is written only after the argument count was found
\* to be three and both input files were read, in that order; with a wrong
\* argument count the process prints the usage message and exits non-zero
\* having read no file; with an unreadable input file it prints "Error
\* reading file" and exits non-zero, no score computed, no output written.
C7_WriteAfterArgsAndReads ==
  /\ output # <<>> =>
        /\ argc = 3
        /\ reads = <<"original", "copied">>
        /\ \A f \in Files : readable[f]
        /\ similarity # <<>>
        /\ stdout = <<>>
  /\ reads # <<>> => argc = 3 /\ reads[1] = "original"
  /\ argc # 3 =>
        /\ reads = <<>>
        /\ output = <<>>
        /\ similarity = <<>>
        /\ pc = "exit" => stdout = <<"Usage">> /\ exit_code > 0
  /\ argc = 3 /\ (\E f \in Files : ~readable[f]) =>
        /\ ~InSimilarity
        /\ similarity = <<>>
        /\ output = <<>>
        /\ pc = "exit" => stdout = <<"Error reading file">> /\ exit_code > 0

C7_Witness ==
  /\ pc = "exit"
  /\ output # <<>>
  /\ exit_code = 0
  /\ reads = <<"original", "copied">>
  /\ similarity # <<FZero>>

=============================================================================
